---- MODULE Spec2Model ----
(***************************************************************************)
(* The pipelines transform of vector (src/transforms/pipelines/mod.rs):    *)
(* the expansion of a PipelinesConfig into a flat, insertion-ordered map   *)
(* of component key -> (inputs, transform), and its nesting validator.     *)
(*                                                                         *)
(* The three expanders (PipelineConfig::expand, EventTypeConfig::expand,   *)
(* PipelinesConfig::expand) and PipelinesConfig::nestable are pure         *)
(* functions of a config, a component key and an input list.  They are     *)
(* operators here; the state machine draws a config, a key and inputs in   *)
(* Init and applies one of the four functions.                             *)
(***************************************************************************)
EXTENDS Integers, Sequences, FiniteSets, TLC

VARIABLES
    level,          \* which kind of config `subject` is: "pipeline", "event_type", "pipelines"
    subject,        \* the config the function is applied to
    component_key,  \* the caller-supplied ComponentKey (its id string)
    inputs,         \* the caller-supplied external inputs
    op,             \* "none" before the call; then "expand" or "nestable"
    out             \* the value the call returned

vars == <<level, subject, component_key, inputs, op, out>>

-----------------------------------------------------------------------------
(* Bounds of the model.                                                    *)

MaxTransforms == 2   \* transforms of a pipeline expanded alone; one fewer inside an event type
MaxOrder      == 2   \* length of an `order` list
MaxSize       == 4   \* pipelines + transforms + order names of an event type expanded
                     \* alone; one fewer for the two event types of a PipelinesConfig

-----------------------------------------------------------------------------
(* ComponentKey: a dotted string.                                          *)

Join(key, segment) == key \o "." \o segment

\* component_key.join(index) with the usize index of enumerate(), from 0.
JoinIndex(key, index) == key \o "." \o ToString(index)

-----------------------------------------------------------------------------
(* crate::Result<Option<IndexMap<..>>> and the values in it.               *)

NoError == ""

\* An IndexMap entry: key -> (inputs, transform).  `node` names the transform.
Entry(k, ins, n) == [key |-> k, inputs |-> ins, node |-> n]

Keys(map) == {map[i].key : i \in DOMAIN map}

IndexOf(map, k) == CHOOSE i \in DOMAIN map : map[i].key = k

\* IndexMap::insert: a present key keeps its position and takes the new value.
Insert(map, e) ==
    IF e.key \in Keys(map)
    THEN [map EXCEPT ![IndexOf(map, e.key)] = e]
    ELSE Append(map, e)

\* IndexMap::extend: insert every entry of `sub`, in order.
RECURSIVE Extend(_, _)
Extend(map, sub) ==
    IF sub = <<>> THEN map ELSE Extend(Insert(map, Head(sub)), Tail(sub))

\* A record of one call of a child's expand: who called, on which key, with
\* which inputs, and the error it returned (NoError for Ok).  The calls of one
\* expansion are kept in the order they start.
Call(f, parent, k, ins, e) ==
    [fn |-> f, parent |-> parent, key |-> k, inputs |-> ins, err |-> e]

\* What an expand returns.  err # NoError is Err(err) and carries no map;
\* some = FALSE is Ok(None).  `log` (the calls made) and `clobbered` (the keys
\* an insert or extend found already present) are observations of the run.
Err(e, lg) ==
    [err |-> e, some |-> FALSE, map |-> <<>>, log |-> lg, clobbered |-> {}]
OkNone ==
    [err |-> NoError, some |-> FALSE, map |-> <<>>, log |-> <<>>, clobbered |-> {}]
OkSome(m, lg, cl) ==
    [err |-> NoError, some |-> TRUE, map |-> m, log |-> lg, clobbered |-> cl]

-----------------------------------------------------------------------------
(* Configs.                                                                *)

\* Option<Vec<String>>
None == [some |-> FALSE, names |-> <<>>]
Some(ns) == [some |-> TRUE, names |-> ns]

\* PipelineConfig (its `name` is a label no function reads)
PipelineConfig(f, ts) == [filter |-> f, transforms |-> ts]

\* One entry of IndexMap<String, PipelineConfig>
PipelineEntry(n, p) == [name |-> n, pipeline |-> p]

\* EventTypeConfig; `pipelines` is the IndexMap<String, PipelineConfig>, a
\* sequence of entries in insertion order.
EventTypeConfig(o, ps) == [order |-> o, pipelines |-> ps]

\* PipelinesConfig
PipelinesConfig(l, m) == [logs |-> l, metrics |-> m]

\* PipelinesConfig::default()
DefaultConfig == PipelinesConfig(EventTypeConfig(None, <<>>), EventTypeConfig(None, <<>>))

\* Box<dyn TransformConfig>: a child transform.  "leaf" expands to Ok(None),
\* "fail" to Err(err), "pipelines" is a PipelinesConfig (cfg).
Leaf == [type |-> "leaf", err |-> NoError, cfg |-> DefaultConfig]
Fail(e) == [type |-> "fail", err |-> e, cfg |-> DefaultConfig]
Nested(c) == [type |-> "pipelines", err |-> NoError, cfg |-> c]

-----------------------------------------------------------------------------
(* The expanders.                                                          *)

\* The locals of a running expand: map and previous (outputs in
\* PipelinesConfig::expand), with the observations and the error of a `?`.
Locals(ins) ==
    [map |-> <<>>, previous |-> ins, log |-> <<>>, clobbered |-> {}, err |-> NoError]

\* map.insert(k, (ins, n))
InsertInto(st, k, ins, n) ==
    [st EXCEPT !.map = Insert(st.map, Entry(k, ins, n)),
               !.clobbered = st.clobbered \cup (Keys(st.map) \cap {k})]

\* map.extend(expanded) of the map a child returned
ExtendWith(st, r) ==
    [st EXCEPT !.map = Extend(st.map, r.map),
               !.clobbered = st.clobbered \cup r.clobbered \cup (Keys(st.map) \cap Keys(r.map))]

\* The call of a child's expand: its calls follow its own in the log.
Called(st, f, parent, k, r) ==
    [st EXCEPT !.log = st.log \o <<Call(f, parent, k, st.previous, r.err)>> \o r.log]

\* return of an expander: Err(e) of a `?`, or Ok(Some(map))
Return(st) ==
    IF st.err # NoError THEN Err(st.err, st.log) ELSE OkSome(st.map, st.log, st.clobbered)

RECURSIVE PipelinesExpand(_, _, _)

\* transform.expand(&transform_key, &previous) of a child transform.
TransformExpand(t, key, ins) ==
    CASE t.type = "leaf" -> OkNone
      [] t.type = "fail" -> Err(t.err, <<>>)
      [] t.type = "pipelines" -> PipelinesExpand(t.cfg, key, ins)

\* TransformStep without the `?`: an Err is taken for Ok(None).
TransformStepSwallows(st, key, transform_key, transform, r) ==
    LET called == Called(st, "transform", key, transform_key, r)
    IN  IF r.err = NoError /\ r.some
        THEN [ExtendWith(called, r) EXCEPT !.previous = <<transform_key>>]
        ELSE InsertInto(called, transform_key, st.previous, transform.type)

\* One turn of the loop of PipelineConfig::expand, r being what the
\* transform's expand returned.
TransformStep(st, key, transform_key, transform, r) ==
    LET called == Called(st, "transform", key, transform_key, r)
    IN  IF r.err # NoError
        THEN [called EXCEPT !.err = r.err]
        ELSE IF r.some
        THEN [ExtendWith(called, r) EXCEPT !.previous = <<transform_key>>]
        ELSE InsertInto(called, transform_key, st.previous, transform.type)

\* The loop of PipelineConfig::expand over self.transforms, from the i-th
\* transform (1-based here, index i - 1 in the code); `?` leaves it.
RECURSIVE TransformLoop(_, _, _, _)
TransformLoop(transforms, i, key, st) ==
    IF i > Len(transforms) \/ st.err # NoError THEN st
    ELSE TransformLoop(transforms, i + 1, key,
            TransformStep(st, key, JoinIndex(key, i - 1), transforms[i],
                TransformExpand(transforms[i], JoinIndex(key, i - 1), st.previous)))

\* PipelineConfig::expand up to the loop: the filter node
PipelineHead(p, key, ins) ==
    IF p.filter
    THEN [InsertInto(Locals(ins), Join(key, "filter"), ins, "filter")
            EXCEPT !.previous = <<Join(Join(key, "filter"), "truthy")>>]
    ELSE Locals(ins)

\* PipelineConfig::expand after the loop
PipelineTail(p, key, st) ==
    IF st.err # NoError THEN st
    ELSE IF p.filter
    THEN [st EXCEPT !.previous = Append(st.previous, Join(Join(key, "filter"), "falsy"))]
    ELSE InsertInto(st, key, st.previous, "noop")

\* PipelineConfig::expand
PipelineExpand(p, key, ins) ==
    Return(PipelineTail(p, key, TransformLoop(p.transforms, 1, key, PipelineHead(p, key, ins))))

\* The byte order of String on the pipeline names the model draws
\* (Vec<String>::sort is lexicographic on bytes).
LexRank(name) ==
    CASE name = "a" -> 1
      [] name = "b" -> 2
      [] name = "c" -> 3
      [] OTHER -> 4

RECURSIVE SortedInsert(_, _)
SortedInsert(name, sorted) ==
    IF sorted = <<>> THEN <<name>>
    ELSE IF LexRank(name) < LexRank(Head(sorted)) THEN <<name>> \o sorted
    ELSE <<Head(sorted)>> \o SortedInsert(name, Tail(sorted))

\* names.sort()
RECURSIVE Sort(_)
Sort(names) ==
    IF names = <<>> THEN <<>> ELSE SortedInsert(Head(names), Sort(Tail(names)))

\* self.pipelines.keys().cloned().collect()
PipelineKeys(pipelines) == [i \in DOMAIN pipelines |-> pipelines[i].name]

\* EventTypeConfig::names without names.sort()
EventTypeNamesUnsorted(et) ==
    IF et.order.some THEN et.order.names ELSE PipelineKeys(et.pipelines)

\* EventTypeConfig::names
EventTypeNames(et) ==
    IF et.order.some THEN et.order.names ELSE Sort(PipelineKeys(et.pipelines))

\* self.pipelines.get_mut(&name): the position of the entry, 0 for None.
GetMut(pipelines, name) ==
    IF \E i \in DOMAIN pipelines : pipelines[i].name = name
    THEN CHOOSE i \in DOMAIN pipelines : pipelines[i].name = name
    ELSE 0

\* PipelineStep without previous = vec![pipeline_key]: the next pipeline is
\* handed what this one was handed.
PipelineStepKeepsPrevious(st, key, pipeline_key, r) ==
    LET called == Called(st, "pipeline", key, pipeline_key, r)
    IN  IF r.err # NoError
        THEN [called EXCEPT !.err = r.err]
        ELSE IF r.some
        THEN ExtendWith(called, r)
        ELSE called

\* One turn of the loop of EventTypeConfig::expand on a present pipeline, r
\* being what the pipeline's expand returned.
PipelineStep(st, key, pipeline_key, r) ==
    LET called == Called(st, "pipeline", key, pipeline_key, r)
    IN  IF r.err # NoError
        THEN [called EXCEPT !.err = r.err]
        ELSE IF r.some
        THEN [ExtendWith(called, r) EXCEPT !.previous = <<pipeline_key>>]
        ELSE called

\* One turn of the loop of EventTypeConfig::expand
PipelineVisit(et, key, name, st) ==
    IF GetMut(et.pipelines, name) = 0 THEN st
    ELSE PipelineStep(st, key, Join(key, name),
            PipelineExpand(et.pipelines[GetMut(et.pipelines, name)].pipeline,
                           Join(key, name), st.previous))

\* The loop of EventTypeConfig::expand over self.names(), from the i-th
\* name; `?` leaves it.
RECURSIVE PipelineLoop(_, _, _, _, _)
PipelineLoop(et, key, names, i, st) ==
    IF i > Len(names) \/ st.err # NoError THEN st
    ELSE PipelineLoop(et, key, names, i + 1, PipelineVisit(et, key, names[i], st))

\* EventTypeTail with no alias for an event type that expanded nothing
EventTypeTailSkipsEmpty(key, st) ==
    IF st.err # NoError \/ st.map = <<>> THEN st
    ELSE InsertInto(st, key, st.previous, "noop")

\* EventTypeConfig::expand after the loop
EventTypeTail(key, st) ==
    IF st.err # NoError THEN st ELSE InsertInto(st, key, st.previous, "noop")

\* EventTypeConfig::expand
EventTypeExpand(et, key, ins) ==
    Return(EventTypeTail(key, PipelineLoop(et, key, EventTypeNames(et), 1, Locals(ins))))

\* if let Some(expanded) = self.<group>.expand(&group_key, &group_inputs)?
\* of PipelinesConfig::expand; st.previous holds `outputs`.
GroupStep(st, key, group_key, group_inputs, r) ==
    LET called == [st EXCEPT !.log = st.log \o <<Call("event_type", key, group_key, group_inputs, r.err)>>
                                            \o r.log]
    IN  IF r.err # NoError
        THEN [called EXCEPT !.err = r.err]
        ELSE IF r.some
        THEN [ExtendWith(called, r) EXCEPT !.previous = Append(st.previous, group_key)]
        ELSE called

\* PipelinesConfig::expand of one event type, unless a `?` has returned
Group(cfg, key, group, st) ==
    IF st.err # NoError THEN st
    ELSE GroupStep(st, key, Join(key, group), <<Join(Join(key, "router"), group)>>,
            EventTypeExpand(cfg[group], Join(key, group), <<Join(Join(key, "router"), group)>>))

\* PipelinesConfig::expand up to the event types: the router node, no outputs
Router(key, ins) ==
    [InsertInto(Locals(ins), Join(key, "router"), ins, "router") EXCEPT !.previous = <<>>]

\* PipelinesConfig::expand after the event types
PipelinesTail(key, st) ==
    IF st.err # NoError THEN st ELSE InsertInto(st, key, st.previous, "noop")

\* PipelinesConfig::expand
PipelinesExpand(cfg, key, ins) ==
    Return(PipelinesTail(key,
        Group(cfg, key, "metrics", Group(cfg, key, "logs", Router(key, ins)))))

-----------------------------------------------------------------------------
(* The nesting validator.                                                  *)

\* fn transform_type(&self) of PipelinesConfig
TransformType == "pipelines"

NestedError == "Pipelines transform shouldn't be nested in a pipelines transform."

RECURSIVE PipelinesNestable(_, _)

\* transform.nestable(&nodes) of a child transform; NoError is Ok(()).
TransformNestable(t, parents) ==
    IF t.type = "pipelines" THEN PipelinesNestable(t.cfg, parents) ELSE NoError

\* The first Err among the transforms of one pipeline, in order.
RECURSIVE NestableTransforms(_, _, _)
NestableTransforms(transforms, i, nodes) ==
    IF i > Len(transforms) THEN NoError
    ELSE LET r == TransformNestable(transforms[i], nodes)
         IN  IF r # NoError THEN r ELSE NestableTransforms(transforms, i + 1, nodes)

\* The first Err among the pipelines, in the order of pipelines.values().
RECURSIVE NestablePipelines(_, _, _)
NestablePipelines(pipelines, i, nodes) ==
    IF i > Len(pipelines) THEN NoError
    ELSE LET r == NestableTransforms(pipelines[i].pipeline.transforms, 1, nodes)
         IN  IF r # NoError THEN r ELSE NestablePipelines(pipelines, i + 1, nodes)

\* PipelinesConfig::nestable
PipelinesNestable(cfg, parents) ==
    IF TransformType \in parents
    THEN NestedError
    ELSE NestablePipelines(cfg.logs.pipelines, 1, parents \cup {TransformType})

-----------------------------------------------------------------------------
(* The inputs the model draws.                                             *)

SeqsUpTo(S, n) == UNION {[1..k -> S] : k \in 0..n}

\* A nested pipelines transform with one unfiltered logs pipeline of one leaf.
InnerConfig ==
    PipelinesConfig(
        EventTypeConfig(None, <<PipelineEntry("a", PipelineConfig(FALSE, <<Leaf>>))>>),
        EventTypeConfig(None, <<>>))

\* A nested pipelines transform whose metrics pipeline holds a failing transform.
InnerFailing ==
    PipelinesConfig(
        EventTypeConfig(None, <<>>),
        EventTypeConfig(None, <<PipelineEntry("b", PipelineConfig(TRUE, <<Fail("e2")>>))>>))

Transforms == {Leaf, Fail("e1"), Nested(InnerConfig), Nested(InnerFailing)}

PipelineNames == {"a", "b"}

\* "z" names no pipeline
OrderNames == PipelineNames \cup {"z"}

Orders == {None} \cup {Some(ns) : ns \in SeqsUpTo(OrderNames, MaxOrder)}

PipelineConfigs(n) ==
    {PipelineConfig(f, ts) : f \in BOOLEAN, ts \in SeqsUpTo(Transforms, n)}

\* the key lists of an IndexMap: no name twice
NameLists ==
    {ns \in SeqsUpTo(PipelineNames, Cardinality(PipelineNames)) :
        \A i, j \in DOMAIN ns : ns[i] = ns[j] => i = j}

RECURSIVE Weight(_)
Weight(pipelines) ==
    IF pipelines = <<>> THEN 0
    ELSE 1 + Len(Head(pipelines).pipeline.transforms) + Weight(Tail(pipelines))

Size(et) == Len(et.order.names) + Weight(et.pipelines)

PipelineMaps ==
    LET all == UNION { {[i \in DOMAIN ns |-> PipelineEntry(ns[i], ps[i])] :
                            ps \in [DOMAIN ns -> PipelineConfigs(MaxTransforms - 1)]} :
                       ns \in NameLists }
    IN  {pm : pm \in {x \in all : Weight(x) <= MaxSize}}

\* the event types expanded alone
EventTypeInputs ==
    {et : et \in {e \in [order : Orders, pipelines : PipelineMaps] : Size(e) <= MaxSize}}

\* the event types of at most each size
EventTypesUpTo == [n \in 0..MaxSize |-> {et \in EventTypeInputs : Size(et) <= n}]

\* the pipelines transforms: the two event types share a size of MaxSize - 1
PipelinesInputs ==
    UNION { {PipelinesConfig(l, m) : m \in EventTypesUpTo[MaxSize - 1 - Size(l)]} :
            l \in EventTypesUpTo[MaxSize - 1] }

\* the pipelines expanded alone
PipelineInputs == PipelineConfigs(MaxTransforms)

ComponentKeys == {"foo", "my.0"}

InputLists == {<<"syslog">>, <<"in1", "in2">>}

\* the `parents` a caller hands to nestable
ParentSets == {{}, {"pipelines"}, {"route"}}

-----------------------------------------------------------------------------
(* The state machine: a config is loaded, then one function is applied.    *)

NoOutput == [err |-> NoError, some |-> FALSE, map |-> <<>>, log |-> <<>>, clobbered |-> {}]

Init ==
    /\ \/ level = "pipeline" /\ subject \in PipelineInputs
       \/ level = "event_type" /\ subject \in EventTypeInputs
       \/ level = "pipelines" /\ subject \in PipelinesInputs
    /\ component_key \in ComponentKeys
    /\ inputs \in InputLists
    /\ op = "none"
    /\ out = NoOutput

\* PipelineConfig::expand(component_key, inputs)
ExpandPipeline ==
    /\ op = "none"
    /\ level = "pipeline"
    /\ out' = PipelineExpand(subject, component_key, inputs)
    /\ op' = "expand"
    /\ UNCHANGED <<level, subject, component_key, inputs>>

\* EventTypeConfig::expand(component_key, inputs)
ExpandEventType ==
    /\ op = "none"
    /\ level = "event_type"
    /\ out' = EventTypeExpand(subject, component_key, inputs)
    /\ op' = "expand"
    /\ UNCHANGED <<level, subject, component_key, inputs>>

\* PipelinesConfig::expand(component_key, inputs)
ExpandPipelines ==
    /\ op = "none"
    /\ level = "pipelines"
    /\ out' = PipelinesExpand(subject, component_key, inputs)
    /\ op' = "expand"
    /\ UNCHANGED <<level, subject, component_key, inputs>>

\* PipelinesConfig::nestable(parents)
Nestable ==
    /\ op = "none"
    /\ level = "pipelines"
    /\ \E parents \in ParentSets :
          out' = [parents |-> parents, result |-> PipelinesNestable(subject, parents)]
    /\ op' = "nestable"
    /\ UNCHANGED <<level, subject, component_key, inputs>>

Next == ExpandPipeline \/ ExpandEventType \/ ExpandPipelines \/ Nestable

Spec == Init /\ [][Next]_vars

-----------------------------------------------------------------------------
(* Vocabulary of the properties.                                           *)

Expanded(lv) == op = "expand" /\ level = lv

Returned(lv) == Expanded(lv) /\ out.err = NoError

KeyList(map) == [i \in DOMAIN map |-> map[i].key]

InputsOf(map, k) == map[IndexOf(map, k)].inputs

Contains(seq, x) == \E i \in DOMAIN seq : seq[i] = x

\* s names the node e or one of its named output ports
RefersTo(s, e) ==
    \/ s = e.key
    \/ e.node = "router" /\ s \in {Join(e.key, "logs"), Join(e.key, "metrics")}
    \/ e.node = "filter" /\ s \in {Join(e.key, "truthy"), Join(e.key, "falsy")}

\* the calls one expander made itself, in order
CallsOf(log, f, parent) == SelectSeq(log, LAMBDA c : c.fn = f /\ c.parent = parent)

Present(et, name) == \E i \in DOMAIN et.pipelines : et.pipelines[i].name = name

PipelineNamed(et, name) ==
    et.pipelines[CHOOSE i \in DOMAIN et.pipelines : et.pipelines[i].name = name].pipeline

\* the names of a set in ascending byte order
Ascending(S) ==
    CHOOSE ns \in [1..Cardinality(S) -> S] :
        \A i, j \in 1..Cardinality(S) : i < j => LexRank(ns[i]) < LexRank(ns[j])

\* the iteration order of an event type, as documented
VisitOrder(et) ==
    IF et.order.some
    THEN SelectSeq(et.order.names, LAMBDA n : Present(et, n))
    ELSE Ascending({et.pipelines[i].name : i \in DOMAIN et.pipelines})

AllLeaves(et) ==
    \A i \in DOMAIN et.pipelines :
        \A j \in DOMAIN et.pipelines[i].pipeline.transforms :
            et.pipelines[i].pipeline.transforms[j].type = "leaf"

-----------------------------------------------------------------------------
(* C1: in the map PipelinesConfig::expand(K, I) returns, every input of    *)
(* every node is in I or names a node (or a named output port of a node)   *)
(* inserted earlier in the map: insertion order is a topological order     *)
(* and no input dangles.                                                   *)
C1_InputsResolveEarlier ==
    Returned("pipelines") =>
        \A i \in DOMAIN out.map :
            \A n \in DOMAIN out.map[i].inputs :
                \/ Contains(inputs, out.map[i].inputs[n])
                \/ \E j \in 1..(i - 1) : RefersTo(out.map[i].inputs[n], out.map[j])

(* C2: the last key of the map each of the three expanders returns is the  *)
(* caller-supplied component_key.                                          *)
C2_LastKeyIsComponentKey ==
    op = "expand" /\ out.err = NoError =>
        /\ out.map # <<>>
        /\ out.map[Len(out.map)].key = component_key

\* the keys of pipeline n of an event type at key K, as documented
PipelineKeyList(key, p) ==
    (IF p.filter THEN <<Join(key, "filter")>> ELSE <<>>)
        \o [i \in DOMAIN p.transforms |-> JoinIndex(key, i - 1)]
        \o (IF p.filter THEN <<>> ELSE <<key>>)

RECURSIVE GroupKeyList(_, _, _)
GroupKeyList(et, key, names) ==
    IF names = <<>> THEN <<>>
    ELSE PipelineKeyList(Join(key, Head(names)), PipelineNamed(et, Head(names)))
            \o GroupKeyList(et, key, Tail(names))

(* C3: PipelinesConfig::expand(K, I) returns its keys in the order         *)
(* K.router, the keys of each logs pipeline in iteration order (filter,    *)
(* leaf transforms by index, alias of an unfiltered pipeline), K.logs, the *)
(* same for metrics, K.metrics, K.                                         *)
C3_KeyOrder ==
    Returned("pipelines") /\ AllLeaves(subject.logs) /\ AllLeaves(subject.metrics) =>
        KeyList(out.map) =
            <<Join(component_key, "router")>>
                \o GroupKeyList(subject.logs, Join(component_key, "logs"),
                                VisitOrder(subject.logs))
                \o <<Join(component_key, "logs")>>
                \o GroupKeyList(subject.metrics, Join(component_key, "metrics"),
                                VisitOrder(subject.metrics))
                \o <<Join(component_key, "metrics"), component_key>>

\* the terminal node K of a PipelinesConfig expansion
Terminal == out.map[Len(out.map)]

(* C4, as stated: an event type with an empty pipelines map contributes no *)
(* node and is absent from the inputs of the terminal node K; the default  *)
(* config expands to the two keys K.router and K, and K has no inputs.     *)
C4_EmptyGroupContributesNothing ==
    Returned("pipelines") =>
        /\ \A group \in {"logs", "metrics"} :
              subject[group].pipelines = <<>> =>
                  /\ Join(component_key, group) \notin Keys(out.map)
                  /\ ~Contains(Terminal.inputs, Join(component_key, group))
        /\ subject = DefaultConfig =>
              /\ KeyList(out.map) = <<Join(component_key, "router"), component_key>>
              /\ Terminal.inputs = <<>>

(* C4, amended: an event type with an empty pipelines map contributes      *)
(* exactly one node, its alias K.<type> with inputs [K.router.<type>]      *)
(* (right after K.router for logs, right after K.logs for metrics), and    *)
(* the terminal node K lists that alias; the default config expands to the *)
(* four keys K.router, K.logs, K.metrics, K and K has inputs               *)
(* [K.logs, K.metrics].                                                    *)
C4_EmptyGroupAliasOnly ==
    Returned("pipelines") =>
        /\ subject.logs.pipelines = <<>> =>
              /\ out.map[2] = Entry(Join(component_key, "logs"),
                                    <<Join(Join(component_key, "router"), "logs")>>, "noop")
              /\ Contains(Terminal.inputs, Join(component_key, "logs"))
        /\ subject.metrics.pipelines = <<>> =>
              /\ out.map[Len(out.map) - 2].key = Join(component_key, "logs")
              /\ out.map[Len(out.map) - 1] =
                    Entry(Join(component_key, "metrics"),
                          <<Join(Join(component_key, "router"), "metrics")>>, "noop")
              /\ Contains(Terminal.inputs, Join(component_key, "metrics"))
        /\ subject = DefaultConfig =>
              /\ KeyList(out.map) = <<Join(component_key, "router"),
                                      Join(component_key, "logs"),
                                      Join(component_key, "metrics"), component_key>>
              /\ Terminal.inputs = <<Join(component_key, "logs"),
                                     Join(component_key, "metrics")>>

\* the default config has been expanded
C4_Witness ==
    /\ Returned("pipelines")
    /\ subject = DefaultConfig
    /\ Len(out.map) = 4

\* the calls of PipelineConfig::expand an EventTypeConfig::expand made
Visited == KeyList(CallsOf(out.log, "pipeline", component_key))

\* the keys of the pipelines to visit, as documented
ToVisit == [i \in DOMAIN VisitOrder(subject) |-> Join(component_key, VisitOrder(subject)[i])]

(* C5: EventTypeConfig::expand visits the pipelines in the order of        *)
(* `order` when it is present, skipping the names that are no key of       *)
(* `pipelines` and expanding no pipeline `order` does not list, and in     *)
(* ascending lexicographic order of the keys of `pipelines` when it is     *)
(* absent, whatever the insertion order.  (An error ends the visit.)       *)
C5_VisitOrder ==
    Expanded("event_type") =>
        /\ Len(Visited) <= Len(ToVisit)
        /\ Visited = SubSeq(ToVisit, 1, Len(Visited))
        /\ out.err = NoError => Visited = ToVisit

\* no `order`; the pipelines were inserted as b, a and visited as a, b
C5_Witness ==
    /\ Returned("event_type")
    /\ ~subject.order.some
    /\ PipelineKeys(subject.pipelines) = <<"b", "a">>
    /\ Visited = <<Join(component_key, "a"), Join(component_key, "b")>>

\* `order` lists b, then a name that is no pipeline; pipeline a is not listed
C5_WitnessOrder ==
    /\ Returned("event_type")
    /\ subject.order = Some(<<"b", "z">>)
    /\ PipelineKeys(subject.pipelines) = <<"a", "b">>
    /\ Visited = <<Join(component_key, "b")>>

\* some pipeline of the event type holds a pipelines transform
HoldsPipelines(et) ==
    \E i \in DOMAIN et.pipelines :
        \E j \in DOMAIN et.pipelines[i].pipeline.transforms :
            et.pipelines[i].pipeline.transforms[j].type = TransformType

(* C6: PipelinesConfig::nestable(parents) returns an error exactly when    *)
(* "pipelines" is in parents or a transform of a pipeline of the config,   *)
(* on the logs side or on the metrics side, is itself a pipelines          *)
(* transform (which fails its own check against parents + "pipelines").    *)
C6_NestedPipelinesRejected ==
    op = "nestable" =>
        (out.result # NoError <=>
            \/ TransformType \in out.parents
            \/ HoldsPipelines(subject.logs)
            \/ HoldsPipelines(subject.metrics))

(* C7: within one expansion every insert and every merge of a sub-map uses *)
(* a key the output map does not hold yet: no node is overwritten.         *)
C7_NoKeyInsertedTwice ==
    op = "expand" => out.clobbered = {}

(* C8: when the expand of a child transform returns an error, each         *)
(* enclosing expander returns that same error and no map, and nothing is   *)
(* expanded after the failing transform; an expander that returns Ok saw   *)
(* no call fail.                                                           *)
C8_ErrorPropagated ==
    op = "expand" =>
        /\ out.err = NoError => \A i \in DOMAIN out.log : out.log[i].err = NoError
        /\ out.err # NoError =>
              /\ ~out.some
              /\ out.map = <<>>
              /\ out.log # <<>>
              /\ out.log[Len(out.log)].fn = "transform"
              /\ out.log[Len(out.log)].err = out.err
              /\ \A i \in DOMAIN out.log : out.log[i].err \in {NoError, out.err}

\* a transform of the logs side failed and the metrics side, which holds a
\* pipeline, was not expanded
C8_Witness ==
    /\ Expanded("pipelines")
    /\ out.err # NoError
    /\ subject.metrics.pipelines # <<>>
    /\ CallsOf(out.log, "event_type", component_key)
          = <<Call("event_type", component_key, Join(component_key, "logs"),
                   <<Join(Join(component_key, "router"), "logs")>>, out.err)>>

\* the inputs the calls of transform.expand and the inserts of leaves hand over
TransformCalls == CallsOf(out.log, "transform", component_key)

(* C9: in PipelineConfig::expand(K, I) transform 0 receives I (or          *)
(* [K.filter.truthy] behind a filter), every transform i > 0 receives      *)
(* [K.(i-1)], whether transform i-1 was a leaf or expanded, and the        *)
(* terminal no-op K of an unfiltered pipeline of m > 0 transforms receives *)
(* [K.(m-1)].                                                              *)
C9_SerialChain ==
    Returned("pipeline") =>
        /\ Len(TransformCalls) = Len(subject.transforms)
        /\ \A i \in DOMAIN TransformCalls :
              /\ TransformCalls[i].key = JoinIndex(component_key, i - 1)
              /\ TransformCalls[i].inputs =
                    IF i > 1 THEN <<JoinIndex(component_key, i - 2)>>
                    ELSE IF subject.filter
                    THEN <<Join(Join(component_key, "filter"), "truthy")>>
                    ELSE inputs
              /\ subject.transforms[i].type = "leaf" =>
                    InputsOf(out.map, TransformCalls[i].key) = TransformCalls[i].inputs
        /\ ~subject.filter /\ subject.transforms # <<>> =>
              InputsOf(out.map, component_key)
                  = <<JoinIndex(component_key, Len(subject.transforms) - 1)>>

\* what follows the i-th visited pipeline receives: the next pipeline's
\* inputs, or those of the alias K after the last
HandedOn(i) ==
    IF i < Len(CallsOf(out.log, "pipeline", component_key))
    THEN CallsOf(out.log, "pipeline", component_key)[i + 1].inputs
    ELSE InputsOf(out.map, component_key)

(* C10: what EventTypeConfig::expand hands on after a filtered pipeline at *)
(* key P (to the next pipeline, or to the alias K after the last one)      *)
(* contains P.filter.falsy, and is exactly [P.filter.truthy,               *)
(* P.filter.falsy] after a pipeline of a filter and no transform.          *)
C10_FalsyRejoins ==
    Returned("event_type") =>
        \A i \in DOMAIN VisitOrder(subject) :
            LET p == PipelineNamed(subject, VisitOrder(subject)[i])
                filter_key == Join(Join(component_key, VisitOrder(subject)[i]), "filter")
            IN  p.filter =>
                    /\ Contains(HandedOn(i), Join(filter_key, "falsy"))
                    /\ p.transforms = <<>> =>
                          HandedOn(i) = <<Join(filter_key, "truthy"), Join(filter_key, "falsy")>>

\* the calls of pipeline.expand an EventTypeConfig::expand made
PipelineCalls == CallsOf(out.log, "pipeline", component_key)

\* the calls of EventTypeConfig::expand a PipelinesConfig::expand made
GroupCalls == CallsOf(out.log, "event_type", component_key)

\* the call PipelinesConfig::expand makes for one event type
GroupCall(group, e) ==
    Call("event_type", component_key, Join(component_key, group),
         <<Join(Join(component_key, "router"), group)>>, e)

(* C11: in EventTypeConfig::expand(K, I) the first expanded pipeline is    *)
(* expanded with I, each later one with [K.n_prev], n_prev being the       *)
(* pipeline expanded just before it, and the terminal no-op K receives     *)
(* [K.n_last], or I when no pipeline was expanded; PipelinesConfig::expand *)
(* expands the logs group with [K.router.logs], the metrics group with     *)
(* [K.router.metrics], and with both groups populated the terminal node K  *)
(* has inputs [K.logs, K.metrics].                                         *)
C11_SerialPipelines ==
    /\ Expanded("event_type") =>
          /\ \A i \in DOMAIN PipelineCalls :
                /\ i <= Len(ToVisit)
                /\ PipelineCalls[i].key = ToVisit[i]
                /\ PipelineCalls[i].inputs =
                      IF i = 1 THEN inputs ELSE <<ToVisit[i - 1]>>
          /\ out.err = NoError =>
                InputsOf(out.map, component_key) =
                    IF ToVisit = <<>> THEN inputs ELSE <<ToVisit[Len(ToVisit)]>>
    /\ Expanded("pipelines") =>
          /\ GroupCalls # <<>>
          /\ GroupCalls[1] = GroupCall("logs", GroupCalls[1].err)
          /\ GroupCalls[1].err = NoError =>
                /\ Len(GroupCalls) = 2
                /\ GroupCalls[2] = GroupCall("metrics", GroupCalls[2].err)
          /\ (/\ out.err = NoError
              /\ subject.logs.pipelines # <<>>
              /\ subject.metrics.pipelines # <<>>) =>
                    Terminal = Entry(component_key,
                                     <<Join(component_key, "logs"),
                                       Join(component_key, "metrics")>>, "noop")

\* two different pipelines were expanded one after the other, the second
\* with the key of the first, and the alias received the key of the second
C11_Witness ==
    /\ Returned("event_type")
    /\ Len(PipelineCalls) = 2
    /\ PipelineCalls[1].key # PipelineCalls[2].key
    /\ PipelineCalls[1].inputs = inputs
    /\ PipelineCalls[2].inputs = <<PipelineCalls[1].key>>
    /\ InputsOf(out.map, component_key) = <<PipelineCalls[2].key>>

\* both groups populated: the terminal node joins the two aliases
C11_WitnessBothGroups ==
    /\ Returned("pipelines")
    /\ subject.logs.pipelines # <<>>
    /\ subject.metrics.pipelines # <<>>
    /\ Terminal.inputs = <<Join(component_key, "logs"), Join(component_key, "metrics")>>

====
